---- MODULE Spec2Model ----
(***************************************************************************)
(* A model of shopify_import.py: the import of spreadsheet rows into a      *)
(* remote shop through its GraphQL endpoint.                                *)
(*                                                                          *)
(* Encoding.  A Python string is a sequence of units: a cell of the         *)
(* spreadsheet is a sequence of one-character strings, an identifier of     *)
(* the remote is the sequence of the pieces its text has between "/".       *)
(* An optional value (None or a value) is a sequence of length 0 or 1.      *)
(* A dict is a record; a key that may be absent is looked up with Has.      *)
(*                                                                          *)
(* The remote is the environment: every request is answered by any status   *)
(* and, on 200, by any body the operation's query allows (an "errors"       *)
(* field, user errors, or a product / None out of Products), or the post    *)
(* itself raises.  The rows of the file are drawn as the loop takes them.   *)
(* One step is one pass of graphql_request's loop together with the code    *)
(* that runs after it up to the next request or to the end of the row.      *)
(***************************************************************************)
EXTENDS Integers, Sequences, FiniteSets, TLC

\* ------------------------------------------------------------------ bounds

\* the number of rows of the input file
NumRows == 2

\* the longest variant list of a product given to the variant resolution
MaxVariants == 2

\* the Tags cells of the rows build_product_input is applied to on its own
\* have at most this many characters
MaxTagLen == 4

\* ------------------------------------------------------- optional values

None == <<>>

Some(x) == <<x>>

IsNone(o) == o = <<>>

Get(o) == o[1]

Has(d, k) == k \in DOMAIN d

\* ------------------------------------------------------------- str methods

Whitespace == {" ", "\t", "\n", "\r"}

RECURSIVE LStrip(_)
LStrip(s) ==
    IF s # <<>> /\ Head(s) \in Whitespace THEN LStrip(Tail(s)) ELSE s

RECURSIVE RStrip(_)
RStrip(s) ==
    IF s # <<>> /\ s[Len(s)] \in Whitespace
    THEN RStrip(SubSeq(s, 1, Len(s) - 1))
    ELSE s

\* str.strip()
Strip(s) == RStrip(LStrip(s))

\* str.startswith(p)
StartsWith(s, p) == Len(s) >= Len(p) /\ SubSeq(s, 1, Len(p)) = p

\* ---------------------------------------------------- the transport's policy

\* (mutant) one pass more than the code's
max_retries_OneMore == 5 + 1

max_retries == 5

InitialBackoff == 1

BackoffCap == 16

Min(a, b) == IF a <= b THEN a ELSE b

\* (mutant) the backoff doubles without a cap
NextBackoff_NoCap(b) == b * 2

NextBackoff(b) == Min(b * 2, BackoffCap)

RetryStatuses == {429, 500, 502, 503, 504}

\* the statuses the remote answers with
Statuses == {200, 400, 401, 404} \cup RetryStatuses

\* (mutant) 404 taken for a status to retry on
IsRetryStatus_With404(status) == status \in RetryStatuses \cup {404}

IsRetryStatus(status) == status \in RetryStatuses

\* ------------------------------------------------- the remote's identifiers

ProductVariantPrefix == <<"gid:", "", "shopify", "ProductVariant">>

Gid(kind, n) == <<"gid:", "", "shopify", kind, n>>

\* the identifiers a variant can carry: two of the current kind and one of
\* another kind
VariantIds ==
    {Gid("ProductVariant", "1"), Gid("ProductVariant", "2"), Gid("Variant", "7")}

Skus == {<<"A">>, <<"B">>}

\* ----------------------------------------------------- rows of the input

\* one record of the file, after fillna(""): a cell is a string
MakeRow(handle, tags, sku, price, image) ==
    [ Handle |-> handle,
      Title |-> <<"T">>,
      Body |-> <<"d">>,
      Type |-> <<>>,
      Vendor |-> <<"v", " ">>,
      Tags |-> tags,
      VariantSKU |-> sku,
      VariantPrice |-> price,
      Option1Value |-> <<>>,
      ImageSrc |-> image ]

HandleCells == {<<>>, <<" ">>, <<" ", "h">>}

SkuCells == {<<>>, <<" ", "B">>, <<"b">>}

PriceCells == {<<>>, <<"9">>}

ImageCells == {<<>>, <<"x", " ">>, <<"y">>}

TagsCell == <<"a", ",", " ", "b">>

\* the rows the input file is made of
RowSet ==
    { MakeRow(h, TagsCell, s, p, i) :
        h \in HandleCells, s \in SkuCells, p \in PriceCells, i \in ImageCells }

\* ------------------------------------------------- products of the remote

Variant(id, sku) == [id |-> id, sku |-> sku]

Image(src) == [src |-> src]

Product(id, variants, images) ==
    [id |-> id, variants |-> variants, images |-> images]

PV1 == Gid("ProductVariant", "1")

PV2 == Gid("ProductVariant", "2")

OV7 == Gid("Variant", "7")

P1 == Gid("Product", "1")

P2 == Gid("Product", "2")

\* the product views the remote answers with: with and without variants,
\* with and without images, a sku of the rows in first, second or no place
Products ==
    { Product(P1, <<>>, <<>>),
      Product(P2, <<>>, <<Image(<<"x">>)>>),
      Product(P1, <<Variant(PV1, <<"A">>)>>, <<Image(<<>>), Image(<<"x">>)>>),
      Product(P2, <<Variant(PV1, <<"A">>)>>, <<>>),
      Product(P1, <<Variant(OV7, <<"A">>), Variant(PV2, <<"B">>)>>, <<>>),
      Product(P2, <<Variant(OV7, <<"B">>), Variant(PV2, <<"B">>)>>,
              <<Image(<<"y">>)>>) }

\* ----------------------------------------------------------- input builders

\* str.split(sep) for a one-character separator
RECURSIVE Split(_, _)
Split(s, sep) ==
    IF \A i \in 1..Len(s) : s[i] # sep
    THEN <<s>>
    ELSE LET k == CHOOSE i \in 1..Len(s) :
                    s[i] = sep /\ \A j \in 1..(i - 1) : s[j] # sep
         IN  <<SubSeq(s, 1, k - 1)>> \o Split(SubSeq(s, k + 1, Len(s)), sep)

\* (mutant) the pieces that are blank are kept, as empty tags
RECURSIVE StripNonEmpty_KeepEmpty(_)
StripNonEmpty_KeepEmpty(pieces) ==
    IF pieces = <<>> THEN <<>>
    ELSE <<Strip(Head(pieces))>> \o StripNonEmpty_KeepEmpty(Tail(pieces))

\* [t.strip() for t in pieces if t.strip()]
RECURSIVE StripNonEmpty(_)
StripNonEmpty(pieces) ==
    IF pieces = <<>> THEN <<>>
    ELSE LET t == Strip(Head(pieces))
         IN  (IF t # <<>> THEN <<t>> ELSE <<>>) \o StripNonEmpty(Tail(pieces))

tags_list(row) == StripNonEmpty(Split(Strip(row.Tags), ","))

\* (mutant) the existing product's id is left out of the input
build_product_input_NoId(row, existing_product) ==
    [ title |-> Strip(row.Title),
      handle |-> Strip(row.Handle),
      descriptionHtml |-> Strip(row.Body),
      productType |-> Strip(row.Type),
      vendor |-> Strip(row.Vendor),
      tags |-> tags_list(row) ]

build_product_input(row, existing_product) ==
    LET product_input ==
            [ title |-> Strip(row.Title),
              handle |-> Strip(row.Handle),
              descriptionHtml |-> Strip(row.Body),
              productType |-> Strip(row.Type),
              vendor |-> Strip(row.Vendor),
              tags |-> tags_list(row) ]
    IN  IF ~IsNone(existing_product)
        THEN product_input @@ [id |-> Get(existing_product).id]
        ELSE product_input

\* (mutant) the scan does not stop at the first hit: the last one wins
FirstSkuMatch_Last(edges, variant_sku) ==
    LET hits == {i \in 1..Len(edges) : edges[i].sku = variant_sku}
    IN  IF variant_sku # <<>> /\ hits # {}
        THEN Some(edges[CHOOSE i \in hits : \A j \in hits : i >= j].id)
        ELSE None

\* the id of the first edge whose sku is variant_sku, or None
FirstSkuMatch(edges, variant_sku) ==
    LET hits == {i \in 1..Len(edges) : edges[i].sku = variant_sku}
    IN  IF variant_sku # <<>> /\ hits # {}
        THEN Some(edges[CHOOSE i \in hits : \A j \in hits : i <= j].id)
        ELSE None

\* (mutant) price and sku are put into the payload as they are, blank or not
build_variant_update_input_Blanks(product, row) ==
    LET variant_sku == Strip(row.VariantSKU)
        variant_price == Strip(row.VariantPrice)
        edges == product.variants
        found == FirstSkuMatch(edges, variant_sku)
        variant_id ==
            IF IsNone(found) \/ Get(found) = <<>>
            THEN edges[1].id
            ELSE Get(found)
    IN  IF edges = <<>> THEN None
        ELSE Some([id |-> variant_id, price |-> variant_price,
                   sku |-> variant_sku])

build_variant_update_input(product, row) ==
    LET variant_sku == Strip(row.VariantSKU)
        variant_price == Strip(row.VariantPrice)
        edges == product.variants
        found == FirstSkuMatch(edges, variant_sku)
        variant_id ==
            IF IsNone(found) \/ Get(found) = <<>>
            THEN edges[1].id
            ELSE Get(found)
        variant_input == [id |-> variant_id]
        with_price ==
            IF variant_price # <<>>
            THEN variant_input @@ [price |-> variant_price]
            ELSE variant_input
    IN  IF edges = <<>> THEN None
        ELSE Some(IF variant_sku # <<>>
                  THEN with_price @@ [sku |-> variant_sku]
                  ELSE with_price)

collect_image_srcs(product) ==
    IF IsNone(product) THEN {}
    ELSE LET images == Get(product).images
         IN  {images[i].src : i \in {j \in 1..Len(images) : images[j].src # <<>>}}

\* -------------------------------------------------------------- the state

VARIABLES
    dry_run,    \* args.dry_run
    idx,        \* the number of rows main's loop has taken from the file
    pc,         \* "main": at the head of main's loop; an operation's name:
                \* inside the graphql_request call of that operation;
                \* "done": past the loop
    row,        \* process_row's row (optional)
    existing,   \* process_row's existing, the lookup's result (optional)
    product,    \* product_create's / product_update's product (optional)
    v_input,    \* product_create's / product_update's v_input (optional)
    product_input, \* process_row's product_input (optional)
    sent,       \* the requests.post calls of the current graphql_request call
    backoff,    \* graphql_request's backoff
    slept,      \* the time.sleep calls of the current graphql_request call
    resp,       \* the response on which graphql_request left its loop (optional)
    calls,      \* the graphql_request calls of the current row, in order
    out,        \* the lines printed, one kind per line
    err,        \* the message of the exception main caught for the row (optional)
    remote      \* what is known of the remote's catalogue: None when it may
                \* answer anything (other clients write to it too), or the
                \* product of each handle when this run is its only writer

vars ==
    <<dry_run, idx, pc, row, existing, product, v_input, product_input, sent,
      backoff, slept, resp, calls, out, err, remote>>

Operations ==
    {"productByHandle", "productCreate", "productUpdate",
     "productVariantsBulkUpdate", "productCreateMedia"}

Mutations == Operations \ {"productByHandle"}

MsgNoHandle == "Each row must have a 'Handle' value"

MsgGraphQLErrors == "GraphQL errors"

MsgHttp == "HTTP"

MsgMaxRetries == "Max retries exceeded for GraphQL request"

MsgUserErrors == "userErrors"

MsgPostFailed == "requests.post raised"

Response(status, errors) == [status |-> status, errors |-> errors]

Init ==
    /\ dry_run \in BOOLEAN
    /\ idx = 0
    /\ pc = "main"
    /\ row = None
    /\ existing = None
    /\ product = None
    /\ v_input = None
    /\ product_input = None
    /\ sent = 0
    /\ backoff = InitialBackoff
    /\ slept = <<>>
    /\ resp = None
    /\ calls = <<>>
    /\ out = <<>>
    /\ err = None
    /\ remote = None

\* graphql_request is entered for operation op with the given variables,
\* after the calls cs of the row
Request(op, variables, cs) ==
    /\ pc' = op
    /\ calls' = Append(cs, [op |-> op, variables |-> variables])
    /\ sent' = 0
    /\ backoff' = InitialBackoff
    /\ slept' = <<>>
    /\ resp' = None

\* the lines printed
Line(kind) == [kind |-> kind]

DryRunLine(action, extra) ==
    [kind |-> "[DRY-RUN]", action |-> action, image |-> extra]

\* (mutant) the exception is not caught by the loop: the run ends
Raise_Aborts(msg) ==
    /\ err' = Some(msg)
    /\ out' = Append(out, Line("failed"))
    /\ pc' = "done"

\* (mutant) main catches the exception and prints nothing
Raise_NoLine(msg) ==
    /\ err' = Some(msg)
    /\ out' = out
    /\ pc' = "main"

\* (mutant) the exception is swallowed where it is raised: the failure is
\* printed and the function goes on
Raise_KeepsGoing(msg) ==
    /\ err' = Some(msg)
    /\ out' = Append(out, Line("failed"))
    /\ pc' = pc

\* an exception leaves process_row: main prints the failure line and goes
\* on with the loop
Raise(msg) ==
    /\ err' = Some(msg)
    /\ out' = Append(out, Line("failed"))
    /\ pc' = "main"

\* the call returned and process_row returns after printing its line
Return(line) ==
    /\ out' = Append(out, line)
    /\ pc' = "main"
    /\ sent' = sent + 1
    /\ resp' = Some(Response(200, FALSE))
    /\ UNCHANGED <<backoff, slept, calls, err>>

\* the handles of the rows
Handles == {Strip(h) : h \in HandleCells} \ {<<>>}

\* the handle process_row is working on
handle_of_row == Strip(Get(row).Handle)

\* (mutant) the handle is checked before it is trimmed
HasHandle_NoStrip(r) == r.Handle # <<>>

\* process_row's check of the handle: "if not handle" fails
HasHandle(r) == Strip(r.Handle) # <<>>

\* main's loop takes the next row and process_row runs up to its first
\* request: the handle is validated and the lookup is entered
StartRow ==
    /\ pc = "main"
    /\ idx < NumRows
    /\ \E r \in RowSet :
        LET handle == Strip(r.Handle)
        IN  /\ row' = Some(r)
            /\ idx' = idx + 1
            /\ existing' = None
            /\ product' = None
            /\ v_input' = None
            /\ IF ~HasHandle(r)
               THEN /\ Raise(MsgNoHandle)
                    /\ calls' = <<>>
                    /\ sent' = 0
                    /\ backoff' = InitialBackoff
                    /\ slept' = <<>>
                    /\ resp' = None
               ELSE /\ Request("productByHandle", [handle |-> handle], <<>>)
                    /\ err' = None
                    /\ UNCHANGED out
    /\ product_input' = None
    /\ UNCHANGED <<dry_run, remote>>

\* the loop is over and main returns: only what was printed remains
Finish ==
    /\ pc = "main"
    /\ idx = NumRows
    /\ pc' = "done"
    /\ row' = None
    /\ existing' = None
    /\ product' = None
    /\ v_input' = None
    /\ sent' = 0
    /\ backoff' = InitialBackoff
    /\ slept' = <<>>
    /\ resp' = None
    /\ calls' = <<>>
    /\ err' = None
    /\ product_input' = None
    /\ UNCHANGED <<dry_run, idx, out, remote>>

\* ---------------------------------------------- graphql_request, one pass
\* of its loop: a request is posted and its response handled

\* (mutant) the loop runs twice max_retries passes
RetryableStatus_TwiceAsLong ==
    /\ pc \in Operations
    /\ \E status \in Statuses :
        /\ status # 200
        /\ IsRetryStatus(status)
        /\ sent' = sent + 1
        /\ slept' = Append(slept, backoff)
        /\ backoff' = NextBackoff(backoff)
        /\ IF sent + 1 >= max_retries + max_retries
           THEN /\ resp' = Some(Response(status, FALSE))
                /\ Raise(MsgMaxRetries)
           ELSE /\ resp' = None
                /\ UNCHANGED <<pc, out, err>>
    /\ UNCHANGED <<dry_run, idx, row, existing, product, v_input,
                   product_input, calls, remote>>

\* a status of the retry list: sleep, double the backoff, and go round, or
\* leave the loop when that was the last pass
RetryableStatus ==
    /\ pc \in Operations
    /\ \E status \in Statuses :
        /\ status # 200
        /\ IsRetryStatus(status)
        /\ sent' = sent + 1
        /\ slept' = Append(slept, backoff)
        /\ backoff' = NextBackoff(backoff)
        /\ IF sent + 1 >= max_retries
           THEN /\ resp' = Some(Response(status, FALSE))
                /\ Raise(MsgMaxRetries)
           ELSE /\ resp' = None
                /\ UNCHANGED <<pc, out, err>>
    /\ UNCHANGED <<dry_run, idx, row, existing, product, v_input,
                   product_input, calls, remote>>

\* status 200 and an "errors" field in the body
GraphQLErrors ==
    /\ pc \in Operations
    /\ sent' = sent + 1
    /\ resp' = Some(Response(200, TRUE))
    /\ Raise(MsgGraphQLErrors)
    /\ UNCHANGED <<dry_run, idx, row, existing, product, v_input,
                   product_input, backoff, slept, calls, remote>>

\* any other status
OtherStatus ==
    /\ pc \in Operations
    /\ \E status \in Statuses :
        /\ status # 200
        /\ ~IsRetryStatus(status)
        /\ sent' = sent + 1
        /\ resp' = Some(Response(status, FALSE))
        /\ Raise(MsgHttp)
    /\ UNCHANGED <<dry_run, idx, row, existing, product, v_input,
                   product_input, backoff, slept, calls, remote>>

\* requests.post raises (no connection, say): nothing catches it before main
PostRaises ==
    /\ pc \in Operations
    /\ sent' = sent + 1
    /\ resp' = None
    /\ Raise(MsgPostFailed)
    /\ UNCHANGED <<dry_run, idx, row, existing, product, v_input,
                   product_input, backoff, slept, calls, remote>>

\* status 200 without "errors", and a non-empty userErrors (mediaUserErrors)
\* list in the data of a mutation
MutationUserErrors ==
    /\ pc \in Mutations
    /\ sent' = sent + 1
    /\ resp' = Some(Response(200, FALSE))
    /\ Raise(MsgUserErrors)
    /\ UNCHANGED <<dry_run, idx, row, existing, product, v_input,
                   product_input, backoff, slept, calls, remote>>

\* ------------------------------------ status 200 without "errors": the data
\* is returned, and the caller runs up to its next request or to its return

\* product_create or product_update, whichever is running
InProductCreate == Len(calls) >= 2 /\ calls[2].op = "productCreate"

\* (mutant) only the product the mutation returned is looked at
ImageStep_PostOnly(p, ex) ==
    LET image_src == Strip(Get(row).ImageSrc)
    IN  IF image_src # <<>> /\ image_src \notin collect_image_srcs(Some(p))
        THEN /\ Request("productCreateMedia",
                        [ productId |-> p.id,
                          media |-> <<[ originalSource |-> image_src,
                                        mediaContentType |-> "IMAGE" ]>> ],
                        calls)
             /\ UNCHANGED <<out, err>>
        ELSE Return(Line(IF IsNone(ex) THEN "Created product"
                                       ELSE "Updated product"))

\* the rest of product_create / product_update once the variant is done:
\* the image is created unless a snapshot has it
ImageStep(p, ex) ==
    LET image_src == Strip(Get(row).ImageSrc)
        existing_srcs ==
            IF IsNone(ex)
            THEN collect_image_srcs(Some(p))
            ELSE collect_image_srcs(ex) \cup collect_image_srcs(Some(p))
    IN  IF image_src # <<>> /\ image_src \notin existing_srcs
        THEN /\ Request("productCreateMedia",
                        [ productId |-> p.id,
                          media |-> <<[ originalSource |-> image_src,
                                        mediaContentType |-> "IMAGE" ]>> ],
                        calls)
             /\ UNCHANGED <<out, err>>
        ELSE Return(Line(IF IsNone(ex) THEN "Created product"
                                       ELSE "Updated product"))

\* the product id product_update passes to variant_update
product_id_for_variant(p, ex, v) ==
    IF StartsWith(v.id, ProductVariantPrefix) THEN p.id ELSE Get(ex).id

\* (mutant) the product is looked up again before its variant is updated
VariantStep_Refetch(p, ex, v, pid) ==
    IF ~IsNone(v)
    THEN /\ Request("productByHandle", [handle |-> handle_of_row], calls)
         /\ UNCHANGED <<out, err>>
    ELSE ImageStep(p, ex)

\* the variant update is issued for the one variant that was resolved, if
\* one was; the image step follows otherwise
VariantStep(p, ex, v, pid) ==
    IF ~IsNone(v)
    THEN /\ Request("productVariantsBulkUpdate",
                    [productId |-> pid, variants |-> <<Get(v)>>], calls)
         /\ UNCHANGED <<out, err>>
    ELSE ImageStep(p, ex)

\* (mutant) the dry_run flag is not looked at
AfterLookup_IgnoringDryRun(answer) ==
    /\ product_input' = Some(build_product_input(Get(row), answer))
    /\ Request(IF ~IsNone(answer) THEN "productUpdate" ELSE "productCreate",
               [input |-> build_product_input(Get(row), answer)], calls)
    /\ UNCHANGED <<out, err>>

\* (mutant) the result of the lookup is not used: the product is created
AfterLookup_AlwaysCreate(answer) ==
    /\ product_input' = Some(build_product_input(Get(row), None))
    /\ Request("productCreate",
               [input |-> build_product_input(Get(row), None)], calls)
    /\ UNCHANGED <<out, err>>

\* process_row after the lookup: the preview of a dry run, or product_update
\* / product_create entered with the product input
AfterLookup(answer) ==
    /\ product_input' = Some(build_product_input(Get(row), answer))
    /\ IF dry_run
       THEN Return(DryRunLine(IF ~IsNone(answer) THEN "update" ELSE "create",
                              Strip(Get(row).ImageSrc) # <<>>))
       ELSE /\ Request(IF ~IsNone(answer) THEN "productUpdate"
                                          ELSE "productCreate",
                       [input |-> build_product_input(Get(row), answer)], calls)
            /\ UNCHANGED <<out, err>>

\* what productByHandle can answer for a handle
LookupAnswers(handle) ==
    IF IsNone(remote)
    THEN {None} \cup {Some(p) : p \in Products}
    ELSE {Get(remote)[handle]}

\* the products productUpdate can return: any, or for a remote this run
\* alone writes to, those with the id the input names
UpdateAnswers(id) ==
    IF IsNone(remote) THEN Products ELSE {p \in Products : p.id = id}

\* the remote after it has written product p under a handle
Written(handle, p) ==
    IF IsNone(remote)
    THEN None
    ELSE Some([Get(remote) EXCEPT ![handle] = Some(p)])

\* get_product_by_handle returns the product of the handle, or None
LookupReturns ==
    /\ pc = "productByHandle"
    /\ \E answer \in LookupAnswers(handle_of_row) :
        /\ existing' = answer
        /\ AfterLookup(answer)
    /\ UNCHANGED <<dry_run, idx, row, product, v_input, remote>>

\* productCreate returns a product without userErrors
ProductCreateReturns ==
    /\ pc = "productCreate"
    /\ \E p \in Products :
        LET v == build_variant_update_input(p, Get(row))
        IN  /\ product' = Some(p)
            /\ v_input' = v
            /\ VariantStep(p, None, v, p.id)
            /\ remote' = Written(handle_of_row, p)
    /\ UNCHANGED <<dry_run, idx, row, existing, product_input>>

\* (mutant) the snapshot of the lookup is tried first
resolve_variant_PreFirst(p, ex, r) ==
    LET v1 == IF ~IsNone(ex) THEN build_variant_update_input(Get(ex), r)
                             ELSE None
    IN  IF IsNone(v1) THEN build_variant_update_input(p, r) ELSE v1

\* product_update's v_input: resolved against the product the update
\* returned, and against the lookup's snapshot when that yields nothing
resolve_variant(p, ex, r) ==
    LET v1 == build_variant_update_input(p, r)
    IN  IF IsNone(v1) /\ ~IsNone(ex)
        THEN build_variant_update_input(Get(ex), r)
        ELSE v1

\* productUpdate returns a product without userErrors
ProductUpdateReturns ==
    /\ pc = "productUpdate"
    /\ \E p \in UpdateAnswers(Get(existing).id) :
        LET v == resolve_variant(p, existing, Get(row))
        IN  /\ product' = Some(p)
            /\ v_input' = v
            /\ VariantStep(p, existing, v,
                           IF IsNone(v) THEN p.id
                           ELSE product_id_for_variant(p, existing, Get(v)))
            /\ remote' = Written(handle_of_row, p)
    /\ UNCHANGED <<dry_run, idx, row, existing, product_input>>

\* productVariantsBulkUpdate returns without userErrors
VariantUpdateReturns ==
    /\ pc = "productVariantsBulkUpdate"
    /\ ImageStep(Get(product), IF InProductCreate THEN None ELSE existing)
    /\ UNCHANGED <<dry_run, idx, row, existing, product, v_input,
                   product_input, remote>>

\* productCreateMedia returns without mediaUserErrors
CreateImageReturns ==
    /\ pc = "productCreateMedia"
    /\ Return(Line(IF InProductCreate THEN "Created product"
                                      ELSE "Updated product"))
    /\ UNCHANGED <<dry_run, idx, row, existing, product, v_input,
                   product_input, remote>>

Next ==
    \/ StartRow
    \/ Finish
    \/ RetryableStatus
    \/ GraphQLErrors
    \/ OtherStatus
    \/ PostRaises
    \/ MutationUserErrors
    \/ LookupReturns
    \/ ProductCreateReturns
    \/ ProductUpdateReturns
    \/ VariantUpdateReturns
    \/ CreateImageReturns

Spec == Init /\ [][Next]_vars

\* the program runs on while it can, and every request is answered
FairSpec == Spec /\ WF_vars(Next)

\* a live run against a remote that starts without products and that only
\* this run writes to
InitRemote ==
    /\ dry_run = FALSE
    /\ idx = 0
    /\ pc = "main"
    /\ row = None
    /\ existing = None
    /\ product = None
    /\ v_input = None
    /\ product_input = None
    /\ sent = 0
    /\ backoff = InitialBackoff
    /\ slept = <<>>
    /\ resp = None
    /\ calls = <<>>
    /\ out = <<>>
    /\ err = None
    /\ remote = Some([h \in Handles |-> None])

SpecRemote ==
    /\ InitRemote
    /\ [][Next]_vars

\* ------------------------- build_variant_update_input applied on its own

\* the variants a product can list
VariantNodes == {Variant(id, sku) : id \in VariantIds, sku \in Skus}

\* the variant lists of at most MaxVariants variants
VariantLists ==
    UNION {[1..n -> VariantNodes] : n \in 0..MaxVariants}

VariantRows ==
    { MakeRow(<<"h">>, <<>>, s, p, <<>>) :
        s \in {<<>>, <<" ">>, <<"A">>, <<"B">>, <<"b">>, <<" ", "B", " ">>},
        p \in {<<>>, <<" ">>, <<"9">>} }

InitVariant ==
    /\ dry_run = FALSE
    /\ idx = 1
    /\ pc = "build_variant_update_input"
    /\ row \in {Some(r) : r \in VariantRows}
    /\ existing = None
    /\ product \in {Some(Product(P1, vs, <<>>)) : vs \in VariantLists}
    /\ v_input = None
    /\ product_input = None
    /\ sent = 0
    /\ backoff = InitialBackoff
    /\ slept = <<>>
    /\ resp = None
    /\ calls = <<>>
    /\ out = <<>>
    /\ err = None
    /\ remote = None

BuildVariantReturns ==
    /\ pc = "build_variant_update_input"
    /\ v_input' = build_variant_update_input(Get(product), Get(row))
    /\ pc' = "returned"
    /\ UNCHANGED <<dry_run, idx, row, existing, product, product_input, sent,
                   backoff, slept, resp, calls, out, err, remote>>

NextVariant == BuildVariantReturns

SpecVariant == InitVariant /\ [][NextVariant]_vars

----------------------------------------------------------------------------
(* build_product_input on its own: the function applied to one row.        *)

TagChars == {"a", "b", ",", " "}

\* the cell "a, b,, c "
ExampleTags == <<"a", ",", " ", "b", ",", ",", " ", "c", " ">>

TagCells ==
    UNION {[1..n -> TagChars] : n \in 0..MaxTagLen} \cup {ExampleTags}

TagRows == {MakeRow(<<"h">>, t, <<>>, <<>>, <<>>) : t \in TagCells}

InitTags ==
    /\ dry_run = FALSE
    /\ idx = 1
    /\ pc = "build_product_input"
    /\ row \in {Some(r) : r \in TagRows}
    /\ existing \in {None, Some(Product(P1, <<>>, <<>>))}
    /\ product = None
    /\ v_input = None
    /\ product_input = None
    /\ sent = 0
    /\ backoff = InitialBackoff
    /\ slept = <<>>
    /\ resp = None
    /\ calls = <<>>
    /\ out = <<>>
    /\ err = None
    /\ remote = None

BuildProductInputReturns ==
    /\ pc = "build_product_input"
    /\ product_input' = Some(build_product_input(Get(row), existing))
    /\ pc' = "returned"
    /\ UNCHANGED <<dry_run, idx, row, existing, product, v_input, sent,
                   backoff, slept, resp, calls, out, err, remote>>

NextTags == BuildProductInputReturns

SpecTags == InitTags /\ [][NextTags]_vars

\* ================================================================ claims

\* the operations of the calls issued so far in the current row
CallOps == {calls[i].op : i \in 1..Len(calls)}

\* the positions of the calls of operation op in the current row
CallsOf(op) == {i \in 1..Len(calls) : calls[i].op = op}

\* the row at hand has been processed to its end
RowEnded == pc = "main" /\ idx >= 1 /\ Len(out) = idx

\* C1: in a dry run no mutation (productCreate, productUpdate, variant
\* update, image creation) is ever issued, whatever the row and whatever
\* the lookup returned; the row ends with the preview line.
C1_DryRunNoMutation ==
    dry_run =>
        /\ pc \notin Mutations
        /\ CallOps \subseteq {"productByHandle"}
        /\ \A i \in 1..Len(out) : out[i].kind \in {"[DRY-RUN]", "failed"}

\* a dry run has previewed an update for a row and a create for the next
C1_Witness ==
    /\ dry_run
    /\ Len(out) = 2
    /\ out[1].kind = "[DRY-RUN]" /\ out[1].action = "update"
    /\ out[2].kind = "[DRY-RUN]" /\ out[2].action = "create"
    /\ IsNone(existing)
    /\ pc = "main"

\* C2 (state part): in a live run the row issues at most one of
\* productCreate / productUpdate; a productCreate only after a lookup that
\* returned None, with an input without id; a productUpdate only after a
\* lookup that returned a product, with that product's id as the input's id.
C2_Routing ==
    ~dry_run =>
        /\ Cardinality(CallsOf("productCreate") \cup CallsOf("productUpdate")) <= 1
        /\ \A i \in CallsOf("productCreate") :
            /\ IsNone(existing)
            /\ ~Has(calls[i].variables.input, "id")
        /\ \A i \in CallsOf("productUpdate") :
            /\ ~IsNone(existing)
            /\ Has(calls[i].variables.input, "id")
            /\ calls[i].variables.input.id = Get(existing).id

\* C2 (step part): the step that ends the lookup of a live run either fails
\* the row or issues the mutation the lookup's result asks for.
C2_LookupStep ==
    (~dry_run /\ pc = "productByHandle" /\ pc' # pc) =>
        \/ pc' = "main" /\ ~IsNone(err') /\ out' = Append(out, Line("failed"))
        \/ /\ IsNone(existing')
           /\ pc' = "productCreate"
           /\ calls' = Append(calls, calls'[Len(calls')])
           /\ calls'[Len(calls')].op = "productCreate"
        \/ /\ ~IsNone(existing')
           /\ pc' = "productUpdate"
           /\ calls' = Append(calls, calls'[Len(calls')])
           /\ calls'[Len(calls')].op = "productUpdate"

\* C2: in a live run, a row with a handle whose lookup succeeds issues
\* productCreate iff the lookup returned no product and productUpdate iff it
\* returned one, never both; the update's input carries the id of the
\* product the lookup returned, the create's input carries no id.
C2_CreateXorUpdate == []C2_Routing /\ [][C2_LookupStep]_vars

\* a live row is inside productUpdate with the id of the looked-up product
C2_Witness ==
    /\ ~dry_run
    /\ pc = "productUpdate"
    /\ ~IsNone(existing)
    /\ Get(existing).id = P2
    /\ calls[2].variables.input.id = P2

\* C3 (state part): one line is printed per finished row, a row in progress
\* has none yet, the next row can be started whenever the loop is at its
\* head with rows left (also after a failure), and the loop ends only after
\* the last row.
C3_State ==
    /\ pc \in Operations => Len(out) = idx - 1
    /\ pc = "main" => Len(out) = idx
    /\ (pc = "main" /\ idx < NumRows) => ENABLED StartRow
    /\ pc = "done" => idx = NumRows /\ Len(out) = NumRows

\* C3 (step part): rows are taken one by one in order, a row is taken only
\* when the row before it is over, and the lines of earlier rows stay.
C3_Step ==
    /\ idx' \in {idx, idx + 1}
    /\ idx' = idx + 1 => pc = "main" /\ Len(out) = idx /\ ~IsNone(row')
    /\ Len(out') \in {Len(out), Len(out) + 1}
    /\ SubSeq(out', 1, Len(out)) = out

\* C3: rows are processed in source order, one at a time; a failure of a row
\* never keeps the next row from being started; every row is started
\* exactly once and the run reaches the end of the input with one outcome
\* reported per row.
C3_RowIsolation ==
    /\ []C3_State
    /\ [][C3_Step]_vars
    /\ <>(pc = "done" /\ idx = NumRows /\ Len(out) = NumRows)

\* the first row failed and the second row was still processed
C3_Witness ==
    /\ pc = "done"
    /\ out[1].kind = "failed"
    /\ out[2].kind = "Created product"

\* the statuses C4 and C5 name as leading to a retry
NamedRetryStatuses == {429, 500, 502, 503, 504}

\* C4: a transport call never sends more than 5 requests; it goes on only
\* while every response so far had a status of {429, 500, 502, 503, 504};
\* after 5 such responses it has sent exactly 5 requests and fails with
\* the retries-exhausted error; a 200 response without "errors" ends the
\* call with its data, whatever the attempt, and no request follows it.
C4_RetryCap ==
    /\ sent <= 5
    /\ Len(slept) <= sent
    /\ pc \in Operations => Len(slept) = sent /\ sent < 5 /\ IsNone(resp)
    /\ Len(slept) = 5 =>
        /\ RowEnded
        /\ sent = 5
        /\ err = Some(MsgMaxRetries)
        /\ out[idx].kind = "failed"
    /\ err = Some(MsgMaxRetries) =>
        /\ sent = 5
        /\ Len(slept) = 5
        /\ ~IsNone(resp)
        /\ Get(resp).status \in NamedRetryStatuses
    /\ (~IsNone(resp) /\ Get(resp).status \in NamedRetryStatuses) =>
        err = Some(MsgMaxRetries)
    /\ (~IsNone(resp) /\ Get(resp) = Response(200, FALSE)) =>
        /\ RowEnded
        /\ sent = Len(slept) + 1
        /\ err \in {None, Some(MsgUserErrors)}

\* a call has used up its 5 requests on retryable responses
C4_Witness ==
    /\ pc = "main"
    /\ err = Some(MsgMaxRetries)
    /\ sent = 5
    /\ Len(calls) = 3

\* C5: a response that is 200 with "errors", or that has a status other
\* than 200 and outside {429, 500, 502, 503, 504}, fails the call at once:
\* nothing is slept for it and no request follows, on the first attempt as
\* after earlier retryable responses.
C5_FailFast ==
    /\ (~IsNone(resp) /\ Get(resp).status = 200 /\ Get(resp).errors) =>
        /\ RowEnded
        /\ err = Some(MsgGraphQLErrors)
        /\ out[idx].kind = "failed"
        /\ sent = Len(slept) + 1
    /\ (~IsNone(resp) /\ Get(resp).status # 200
            /\ Get(resp).status \notin NamedRetryStatuses) =>
        /\ RowEnded
        /\ err = Some(MsgHttp)
        /\ out[idx].kind = "failed"
        /\ sent = Len(slept) + 1
    /\ err = Some(MsgGraphQLErrors) =>
        ~IsNone(resp) /\ Get(resp) = Response(200, TRUE)
    /\ err = Some(MsgHttp) =>
        /\ ~IsNone(resp)
        /\ Get(resp).status \in {400, 401, 404}

\* a 404 ended a call on its third request, after two retryable responses
C5_Witness ==
    /\ pc = "main"
    /\ err = Some(MsgHttp)
    /\ Get(resp).status = 404
    /\ sent = 3
    /\ slept = <<1, 2>>

\* the image sources of a product
SrcsOf(p) == {p.images[i].src : i \in 1..Len(p.images)}

\* the dedup set C6 names: the created product's sources on the create
\* path, those of both snapshots on the update path
DedupSet ==
    IF IsNone(existing)
    THEN SrcsOf(Get(product))
    ELSE SrcsOf(Get(existing)) \cup SrcsOf(Get(product))

ImageNeeded ==
    /\ Strip(Get(row).ImageSrc) # <<>>
    /\ Strip(Get(row).ImageSrc) \notin DedupSet

\* the product mutation and the variant update, if any, are behind the row
ImageStageReached ==
    /\ ~IsNone(product)
    /\ \/ pc = "productCreateMedia"
       \/ /\ RowEnded
          /\ \/ out[idx].kind \in {"Created product", "Updated product"}
             \/ calls[Len(calls)].op = "productCreateMedia"

\* C6: in a live run, once the calls before it have succeeded, the image
\* creation is issued iff the row's trimmed Image Src is non-empty and not
\* in the dedup set (create path: the sources of the created product;
\* update path: those of the pre-update and of the post-update product),
\* and then once, for that source and the product just written.
C6_ImageDedup ==
    ~dry_run =>
        /\ Cardinality(CallsOf("productCreateMedia")) <= 1
        /\ \A i \in CallsOf("productCreateMedia") :
            /\ ~IsNone(product)
            /\ ImageNeeded
            /\ calls[i].variables.productId = Get(product).id
            /\ Len(calls[i].variables.media) = 1
            /\ calls[i].variables.media[1].originalSource
                   = Strip(Get(row).ImageSrc)
        /\ ImageStageReached =>
            (ImageNeeded <=> CallsOf("productCreateMedia") # {})

\* an update ended without an image call because only the pre-update
\* snapshot has the row's image
C6_Witness ==
    /\ ~dry_run
    /\ RowEnded
    /\ out[idx].kind = "Updated product"
    /\ Strip(Get(row).ImageSrc) = <<"x">>
    /\ <<"x">> \in SrcsOf(Get(existing))
    /\ <<"x">> \notin SrcsOf(Get(product))
    /\ CallsOf("productCreateMedia") = {}

\* C7: on the update path the product id passed to the variant update is
\* the id of the snapshot the variant was resolved against: the updated
\* product's when it lists variants, the looked-up product's otherwise.
C7_VariantProductId ==
    \A i \in CallsOf("productVariantsBulkUpdate") :
        ~IsNone(existing) =>
            calls[i].variables.productId =
                IF Get(product).variants # <<>>
                THEN Get(product).id
                ELSE Get(existing).id

\* C8: build_variant_update_input returns None for a product without
\* variants; otherwise its id is that of the first variant, in list order,
\* whose sku is the row's (trimmed) Variant SKU, compared case-sensitively,
\* when that SKU is non-empty and some variant has it, and that of the
\* first variant of the list in every other case.
C8_VariantResolution ==
    pc = "returned" =>
        LET edges == Get(product).variants
            sku == Strip(Get(row).VariantSKU)
            hits == {i \in 1..Len(edges) : edges[i].sku = sku}
        IN  IF edges = <<>>
            THEN IsNone(v_input)
            ELSE /\ ~IsNone(v_input)
                 /\ Get(v_input).id =
                        IF sku # <<>> /\ hits # {}
                        THEN edges[CHOOSE i \in hits : \A j \in hits : i <= j].id
                        ELSE edges[1].id

\* two variants with different ids carry the row's sku, given with blanks
\* around it, and the first of them is resolved
C8_Witness ==
    /\ pc = "returned"
    /\ Len(Get(product).variants) = 2
    /\ Get(product).variants[1].sku = <<"B">>
    /\ Get(product).variants[2].sku = <<"B">>
    /\ Get(product).variants[1].id # Get(product).variants[2].id
    /\ Get(row).VariantSKU = <<" ", "B", " ">>
    /\ Get(v_input).id = Get(product).variants[1].id

\* C9: in a dry run no request at all is sent to the remote while a row is
\* processed.
C9_DryRunNoRequest ==
    dry_run => pc \notin Operations /\ calls = <<>> /\ sent = 0

\* a cell without a character other than blanks
IsBlank(cell) == \A i \in 1..Len(cell) : cell[i] = " "

\* C10: a row whose Handle is empty or blank fails with the validation
\* error, live or dry, before any request: no lookup and no mutation.
C10_EmptyHandle ==
    (~IsNone(row) /\ IsBlank(Get(row).Handle) /\ pc # "returned") =>
        /\ RowEnded
        /\ err = Some(MsgNoHandle)
        /\ out[idx].kind = "failed"
        /\ calls = <<>>
        /\ sent = 0

\* a dry run has rejected a row whose handle is one blank
C10_Witness ==
    /\ dry_run
    /\ ~IsNone(row)
    /\ Get(row).Handle = <<" ">>
    /\ err = Some(MsgNoHandle)
    /\ idx = 2

----------------------------------------------------------------------------
(* C11: the tags of the product input.                                     *)

\* the positions of the commas of a string
CommaAt(s) == {i \in 1..Len(s) : s[i] = ","}

\* the position of the k-th comma of s; 0 before the first, Len(s) + 1
\* after the last
Boundary(s, k) ==
    IF k = 0 THEN 0
    ELSE IF k > Cardinality(CommaAt(s)) THEN Len(s) + 1
    ELSE CHOOSE i \in CommaAt(s) :
            Cardinality({j \in CommaAt(s) : j < i}) = k - 1

\* a string without the whitespace around it
Trimmed(t) ==
    LET inked == {i \in 1..Len(t) : t[i] \notin Whitespace}
    IN  IF inked = {} THEN <<>>
        ELSE SubSeq(t, CHOOSE i \in inked : \A j \in inked : i <= j,
                       CHOOSE i \in inked : \A j \in inked : i >= j)

\* the pieces between the commas of the trimmed cell, each trimmed, the
\* empty ones dropped, in the order of the cell
ExpectedTags(cell) ==
    LET s == Trimmed(cell)
        pieces == [k \in 1..(Cardinality(CommaAt(s)) + 1) |->
                    Trimmed(SubSeq(s, Boundary(s, k - 1) + 1,
                                   Boundary(s, k) - 1))]
    IN  SelectSeq(pieces, LAMBDA t : t # <<>>)

\* C11: the tags of the product input are the pieces of the Tags cell
\* between its commas, in the order of the cell, each without the whitespace
\* around it, the empty pieces left out: no tag is empty, none starts or
\* ends with whitespace, none holds a comma.
C11_Tags ==
    (pc = "returned" /\ ~IsNone(product_input)) =>
        LET tags == Get(product_input).tags
        IN  /\ tags = ExpectedTags(Get(row).Tags)
            /\ \A i \in 1..Len(tags) :
                /\ tags[i] # <<>>
                /\ Head(tags[i]) \notin Whitespace
                /\ tags[i][Len(tags[i])] \notin Whitespace
                /\ \A j \in 1..Len(tags[i]) : tags[i][j] # ","

\* the cell "a, b,, c " has given the tags a, b, c
C11_Witness ==
    /\ pc = "returned"
    /\ ~IsNone(product_input)
    /\ Get(row).Tags = ExampleTags
    /\ Get(product_input).tags = << <<"a">>, <<"b">>, <<"c">> >>

----------------------------------------------------------------------------
(* C12: a failed remote call ends the row.                                 *)

\* the operation of the row's last call
LastOp == calls[Len(calls)].op

\* C12 (state part): no call of a row is in flight once a call of the row
\* has failed; when a row has ended in a failed call, that call is the
\* row's last one, so no variant update and no image creation follow a
\* failed productCreate / productUpdate and no image creation follows a
\* failed variant update.
C12_State ==
    /\ pc \in Operations => IsNone(err)
    /\ (RowEnded /\ ~IsNone(err) /\ calls # <<>>) =>
        /\ LastOp = "productByHandle" => Len(calls) = 1
        /\ LastOp \in {"productCreate", "productUpdate"} =>
            /\ IsNone(product)
            /\ CallOps \cap {"productVariantsBulkUpdate",
                             "productCreateMedia"} = {}
        /\ LastOp = "productVariantsBulkUpdate" =>
            CallOps \cap {"productCreateMedia"} = {}

\* C12 (step part): the step in which a call fails issues no call and ends
\* the row, the call that failed being the row's last; it leaves what the
\* earlier calls returned and wrote as it is; nothing is called for the row
\* after it.
C12_Step ==
    /\ (pc \in Operations /\ ~IsNone(err')) =>
        /\ pc' = "main"
        /\ calls' = calls
        /\ LastOp = pc
        /\ out' = Append(out, Line("failed"))
        /\ existing' = existing /\ product' = product /\ remote' = remote
    /\ (~IsNone(err) /\ idx' = idx) => calls' = calls \/ calls' = <<>>

\* C12: when a remote call of a row fails (lookup, productCreate,
\* productUpdate, variant update or image creation), no further remote call
\* is issued for that row, neither a later step nor a compensating one, and
\* what the earlier calls of the row did stays.
C12_FailureEndsRow == []C12_State /\ [][C12_Step]_vars

\* a product was created, its variant update failed, and the row ended
\* without the image creation its Image Src asks for
C12_Witness ==
    /\ RowEnded
    /\ ~IsNone(err)
    /\ ~IsNone(product)
    /\ Len(calls) = 3
    /\ calls[2].op = "productCreate"
    /\ calls[3].op = "productVariantsBulkUpdate"
    /\ ImageNeeded

----------------------------------------------------------------------------
(* C13: the order of the operations of a live row.                         *)

\* C13 (state part): the calls of a live row are a beginning of the
\* sequence lookup, productCreate or productUpdate, variant update, image
\* creation, in which the last two may each be missing: no operation occurs
\* twice, the one in flight is the last, the variant update carries one
\* variant, and the variant update and the image creation are there only
\* once the product mutation has returned its product; a row that printed
\* Created or Updated has issued one lookup and one product mutation.
C13_State ==
    ~dry_run =>
        /\ Len(calls) <= 4
        /\ \A op \in Operations : Cardinality(CallsOf(op)) <= 1
        /\ pc \in Operations => calls # <<>> /\ LastOp = pc
        /\ calls # <<>> => calls[1].op = "productByHandle"
        /\ Len(calls) >= 2 => calls[2].op \in {"productCreate", "productUpdate"}
        /\ \A i \in CallsOf("productVariantsBulkUpdate") :
            /\ i = 3
            /\ ~IsNone(product)
            /\ Len(calls[i].variables.variants) = 1
        /\ \A i \in CallsOf("productCreateMedia") :
            /\ i \in {3, 4}
            /\ ~IsNone(product)
            /\ i = 4 => calls[3].op = "productVariantsBulkUpdate"
        /\ (RowEnded /\ out[idx].kind \in {"Created product", "Updated product"}) =>
            /\ Cardinality(CallsOf("productByHandle")) = 1
            /\ Cardinality(CallsOf("productCreate")
                             \cup CallsOf("productUpdate")) = 1

\* C13 (step part): within a row a step issues at most one call, after the
\* calls already issued, which stay as they are; what the lookup returned
\* is not replaced while the mutations of the row run.
C13_Step ==
    /\ idx' = idx =>
        \/ calls' = calls
        \/ calls' # <<>> /\ calls' = Append(calls, calls'[Len(calls')])
        \/ pc' = "done"
    /\ pc \in Mutations => existing' = existing

\* C13: in a live row the operations occur in a fixed order and each at
\* most once: the lookup first and never again, then one of productCreate /
\* productUpdate, then at most one variant update with exactly one variant,
\* then at most one image creation; the variant update and the image
\* creation are issued only after the product mutation has succeeded.
C13_OperationOrder == []C13_State /\ [][C13_Step]_vars

\* a live row has issued all four operations
C13_Witness ==
    /\ ~dry_run
    /\ pc = "productCreateMedia"
    /\ Len(calls) = 4
    /\ calls[1].op = "productByHandle"
    /\ calls[2].op = "productUpdate"
    /\ calls[3].op = "productVariantsBulkUpdate"
    /\ calls[4].op = "productCreateMedia"

----------------------------------------------------------------------------
(* C14: the variant of the update path.                                    *)

\* the ids of the variants of a product view
VariantIdsOf(p) == {p.variants[i].id : i \in 1..Len(p.variants)}

\* productUpdate has returned its product for the row at hand
UpdateReturned == ~dry_run /\ ~IsNone(existing) /\ ~IsNone(product)

\* C14: on the update path the variant is resolved against the product the
\* productUpdate returned, and against the looked-up product only when the
\* returned one has no variants: when the returned product has a variant,
\* the targeted id is one of its variants' ids, the one
\* build_variant_update_input gives for it; when it has none and the
\* looked-up product has one, the id is one of the looked-up product's; the
\* variant update is left out iff both have no variants, and is issued with
\* the resolved input otherwise.
C14_UpdateVariant ==
    UpdateReturned =>
        LET post == Get(product)
            pre == Get(existing)
        IN  /\ post.variants # <<>> =>
                /\ ~IsNone(v_input)
                /\ v_input = build_variant_update_input(post, Get(row))
                /\ Get(v_input).id \in VariantIdsOf(post)
            /\ (post.variants = <<>> /\ pre.variants # <<>>) =>
                /\ ~IsNone(v_input)
                /\ v_input = build_variant_update_input(pre, Get(row))
                /\ Get(v_input).id \in VariantIdsOf(pre)
            /\ IsNone(v_input) <=>
                (post.variants = <<>> /\ pre.variants = <<>>)
            /\ CallsOf("productVariantsBulkUpdate") = {} <=> IsNone(v_input)
            /\ \A i \in CallsOf("productVariantsBulkUpdate") :
                calls[i].variables.variants = <<Get(v_input)>>

\* only the looked-up product has a variant with the row's SKU, and the
\* variant update targets the first variant of the updated product
C14_Witness ==
    /\ UpdateReturned
    /\ pc = "productVariantsBulkUpdate"
    /\ Strip(Get(row).VariantSKU) = <<"B">>
    /\ Get(product).variants = <<Variant(PV1, <<"A">>)>>
    /\ Get(existing).variants = <<Variant(OV7, <<"A">>), Variant(PV2, <<"B">>)>>
    /\ Get(v_input).id = PV1
    /\ calls[3].variables.variants[1].id = PV1

----------------------------------------------------------------------------
(* C15: the backoff of a transport call.                                   *)

\* C15: within a transport call the wait after the i-th transient response
\* is min(2^(i-1), 16), the backoff is the wait a further transient
\* response would get and is always one of 1, 2, 4, 8, 16; a transport
\* call that has sent nothing yet has backoff 1 and has not waited, however
\* long the call before it waited.
C15_Backoff ==
    /\ backoff \in {1, 2, 4, 8, 16}
    /\ Len(slept) <= sent
    /\ \A i \in 1..Len(slept) :
        slept[i] = IF 2^(i - 1) < 16 THEN 2^(i - 1) ELSE 16
    /\ backoff = IF 2^Len(slept) < 16 THEN 2^Len(slept) ELSE 16
    /\ (pc \in Operations /\ sent = 0) => backoff = 1 /\ slept = <<>>

\* a call has waited 1, 2, 4, 8 and 16 seconds, and the backoff stays at 16
C15_Witness ==
    /\ slept = <<1, 2, 4, 8, 16>>
    /\ backoff = 16
    /\ sent = 5

----------------------------------------------------------------------------
(* C16: the lookup of every row is fresh.                                  *)

\* what the remote has under the handle of the row at hand
Stored == Get(remote)[handle_of_row]

\* C16 (state part), against a remote that has what this run wrote to it:
\* what a row works with is what the remote has under the row's handle at
\* that time, whatever the rows before found; a productCreate is in flight
\* only for a handle the remote has no product of, and a productUpdate
\* carries the id of the product the remote has under the handle.
C16_State ==
    (~IsNone(remote) /\ ~IsNone(row) /\ HasHandle(Get(row))) =>
        /\ ~IsNone(existing) =>
            ~IsNone(Stored) /\ Get(existing).id = Get(Stored).id
        /\ pc = "productCreate" => IsNone(Stored)
        /\ \A i \in CallsOf("productUpdate") :
            /\ ~IsNone(Stored)
            /\ calls[i].variables.input.id = Get(Stored).id

\* C16 (step part): a product the remote has under a handle stays under it
\* with its id, and no step issues a productCreate for the handle of a row
\* the remote has a product of.
C16_Step ==
    ~IsNone(remote) =>
        /\ \A h \in Handles :
            ~IsNone(Get(remote)[h]) =>
                /\ ~IsNone(Get(remote')[h])
                /\ Get(Get(remote')[h]).id = Get(Get(remote)[h]).id
        /\ (pc' = "productCreate" /\ pc # pc') =>
            IsNone(Get(remote)[Strip(Get(row').Handle)])

\* C16: the product of a row's handle is looked up for every row and not
\* kept from row to row: against a remote that returns a product by handle
\* once it was created, a row whose handle an earlier row created a product
\* for takes the update path with that product's id, and no second
\* productCreate is issued for the handle.
C16_FreshLookup == []C16_State /\ [][C16_Step]_vars

\* the first row created a product and the second row, with the same
\* handle, is updating it
C16_Witness ==
    /\ ~IsNone(remote)
    /\ idx = 2
    /\ out[1].kind = "Created product"
    /\ pc = "productUpdate"
    /\ ~IsNone(Stored)
    /\ existing = Stored
    /\ calls[2].variables.input.id = Get(Stored).id

----------------------------------------------------------------------------
(* C17: the fields of the variant payload.                                 *)

\* C17: the payload build_variant_update_input returns has the resolved id,
\* which is the id of a variant of the product; it has a price exactly when
\* the row's Variant Price is not blank, and then the trimmed price; it has
\* a sku exactly when the row's Variant SKU is not blank, and then the
\* trimmed sku; it has no other field, and no field with an empty value.
C17_Payload ==
    (pc = "returned" /\ ~IsNone(v_input)) =>
        LET v == Get(v_input)
            price == Trimmed(Get(row).VariantPrice)
            sku == Trimmed(Get(row).VariantSKU)
        IN  /\ DOMAIN v =
                   {"id"} \cup (IF price # <<>> THEN {"price"} ELSE {})
                          \cup (IF sku # <<>> THEN {"sku"} ELSE {})
            /\ v.id \in VariantIdsOf(Get(product))
            /\ Has(v, "price") => v.price = price
            /\ Has(v, "sku") => v.sku = sku
            /\ \A k \in DOMAIN v : v[k] # <<>>

\* a row with a blank price and a sku with blanks around it has given a
\* payload of id and trimmed sku
C17_Witness ==
    /\ pc = "returned"
    /\ ~IsNone(v_input)
    /\ Get(row).VariantPrice = <<" ">>
    /\ Get(row).VariantSKU = <<" ", "B", " ">>
    /\ DOMAIN Get(v_input) = {"id", "sku"}
    /\ Get(v_input).sku = <<"B">>

----------------------------------------------------------------------------
(* C18: the report line of a row.                                          *)

LineKinds == {"[DRY-RUN]", "Created product", "Updated product", "failed"}

\* the row at hand ends in this step
RowEnds ==
    /\ pc' = "main"
    /\ pc \in Operations \/ idx' = idx + 1

\* C18 (state part): there is one line per row that has ended and none for
\* the row in progress, each of one of the four kinds; the line of a row is
\* the failure line iff an exception ended the row, in particular when the
\* product was written and a later call failed; it is Created / Updated
\* only in a live run, after a product mutation that returned its product
\* and with the row's last call answered without error; it is the preview
\* in a dry run whose lookup succeeded.
C18_State ==
    /\ pc \in Operations => Len(out) = idx - 1
    /\ pc \in {"main", "done"} => Len(out) = idx
    /\ \A i \in 1..Len(out) : out[i].kind \in LineKinds
    /\ RowEnded =>
        /\ out[idx].kind = "failed" <=> ~IsNone(err)
        /\ (~IsNone(product) /\ ~IsNone(err)) => out[idx].kind = "failed"
        /\ out[idx].kind \in {"Created product", "Updated product"} =>
            /\ ~dry_run
            /\ IsNone(err)
            /\ ~IsNone(product)
            /\ Len(calls) >= 2
            /\ resp = Some(Response(200, FALSE))
            /\ out[idx].kind = "Updated product" <=> ~IsNone(existing)
        /\ out[idx].kind = "[DRY-RUN]" <=> (dry_run /\ IsNone(err))

\* C18 (step part): a line is printed exactly in the step that ends a row,
\* one line, after the lines printed before; the step in which a call
\* fails prints the failure line.
C18_Step ==
    /\ RowEnds => Len(out') = Len(out) + 1
    /\ ~RowEnds => out' = out
    /\ SubSeq(out', 1, Len(out)) = out
    /\ (pc \in Operations /\ ~IsNone(err')) =>
        out' = Append(out, Line("failed"))

\* C18: every row gets exactly one report line, the preview of a dry run,
\* Created / Updated, or the failure line, never two; in a live run the
\* Created / Updated line is printed only if every call issued for the row
\* succeeded, and a row whose product was created or updated and whose
\* variant update or image creation failed is reported as failed.
C18_OneLinePerRow == []C18_State /\ [][C18_Step]_vars

\* a product was created, its image creation failed, and the one line of
\* the row is the failure line
C18_Witness ==
    /\ RowEnded
    /\ ~dry_run
    /\ ~IsNone(product)
    /\ ~IsNone(err)
    /\ calls[2].op = "productCreate"
    /\ LastOp = "productCreateMedia"
    /\ out[idx].kind = "failed"
    /\ Len(out) = idx

----------------------------------------------------------------------------
(* C19: termination and the number of requests.                            *)

\* the most requests the row at hand can have sent: 5 for each of its
\* calls that are over, and those of its last call
RowPostsBound == IF calls = <<>> THEN 0 ELSE 5 * (Len(calls) - 1) + sent

\* C19 (state part): a call has sent at most 5 requests, and fewer than 5
\* while it is in flight; a row has issued at most 4 calls, at most the
\* lookup in a dry run; so a row has sent at most 20 requests, at most 5
\* in a dry run.
C19_State ==
    /\ sent <= 5
    /\ pc \in Operations => sent < 5
    /\ Len(calls) <= 4
    /\ dry_run => Len(calls) <= 1
    /\ RowPostsBound <= 20
    /\ dry_run => RowPostsBound <= 5

\* C19 (step part): a response either ends the call or uses up one of its
\* five requests; a call of a row follows a call that is over; rows are
\* not gone back to, and the run stays ended once it has ended.
C19_Step ==
    /\ (pc \in Operations /\ pc' = pc) => sent' = sent + 1 /\ calls' = calls
    /\ (pc \in Operations /\ pc' \in Operations /\ pc' # pc) =>
        sent' = 0 /\ Len(calls') = Len(calls) + 1
    /\ idx' >= idx
    /\ pc = "done" => pc' = "done"

\* C19: when every request gets a response, the run terminates: a call
\* sends at most 5 requests, a row issues at most 4 calls and so sends at
\* most 20 requests (5 in a dry run), and the run gets to the end of the
\* rows whatever the responses are.
C19_Termination ==
    /\ []C19_State
    /\ [][C19_Step]_vars
    /\ <>[](pc = "done" /\ idx = NumRows)

\* the fourth call of a row has used up its five requests
C19_Witness ==
    /\ RowEnded
    /\ Len(calls) = 4
    /\ sent = 5
    /\ err = Some(MsgMaxRetries)
    /\ RowPostsBound = 20

============================================================================
